---- MODULE Spec2Model ----
(***************************************************************************)
(* container-desktop-entries: the session registration pipeline.           *)
(*                                                                         *)
(*   - container_type.rs : ContainerType and its command / rewrite         *)
(*                         templates                                       *)
(*   - server.rs         : server(), set_up_client(), lookup_icon(),       *)
(*                         shell_command()                                 *)
(*   - client.rs         : client()                                        *)
(*   - main.rs           : main(), container_server(),                     *)
(*                         container_client(), shell_command()             *)
(*                                                                         *)
(* Text is a sequence of one-character strings, so that the regex          *)
(* replacement of the descriptor rewriter is computed character by         *)
(* character, as regex::Regex::replace_all computes it.                    *)
(***************************************************************************)
EXTENDS Integers, Sequences, FiniteSets, TLC

----------------------------------------------------------------------------
(* Characters and literal strings of the source *)

NL == "\n"

\* \s of the regex crate: the white space characters of the model's alphabet
IsSpace(c) == c \in {" ", NL, "\t", "\r"}

S_ExecEq == <<"E", "x", "e", "c", "=">>
S_NameEq == <<"N", "a", "m", "e", "=">>
S_IconEq == <<"I", "c", "o", "n", "=">>
S_NoDisplayEq == <<"N", "o", "D", "i", "s", "p", "l", "a", "y", "=">>
S_true == <<"t", "r", "u", "e">>
S_Group == <<"[", "D", "]">>

\* "Exec=toolbox run -c "
S_ToolboxExec ==
    <<"E", "x", "e", "c", "=", "t", "o", "o", "l", "b", "o", "x", " ",
      "r", "u", "n", " ", "-", "c", " ">>

\* "Exec=sh -c 'podman container start "
S_PodmanExec1 ==
    <<"E", "x", "e", "c", "=", "s", "h", " ", "-", "c", " ", "'",
      "p", "o", "d", "m", "a", "n", " ", "c", "o", "n", "t", "a", "i", "n", "e", "r", " ",
      "s", "t", "a", "r", "t", " ">>

\* " && podman container exec "
S_PodmanExec2 ==
    <<" ", "&", "&", " ",
      "p", "o", "d", "m", "a", "n", " ", "c", "o", "n", "t", "a", "i", "n", "e", "r", " ",
      "e", "x", "e", "c", " ">>

----------------------------------------------------------------------------
(* ContainerType (container_type.rs) *)

ContainerType == {"Podman", "Docker", "Toolbox", "Unknown"}

not_supported_all(self) == FALSE

not_supported(self) == self \in {"Docker", "Podman", "Unknown"}

\* The container names of the model, and the characters of each
ContainerNames == {"a", "b"}

NameChars(container_name) == <<container_name>>

\* A regex of the source is one of: the pattern (KEY=\s?)(.*) for a literal
\* KEY=, or the empty pattern.
PatNone == <<>>

format_exec_regex_pattern(self) ==
    IF self \in {"Toolbox", "Podman", "Docker"} THEN S_ExecEq ELSE PatNone

format_name_regex_pattern(self) ==
    IF self \in {"Toolbox", "Podman", "Docker"} THEN S_NameEq ELSE PatNone

\* A replacement template is pre ++ ${2} ++ suf when it names the group, and
\* the literal pre otherwise; the empty template is [g2 |-> FALSE, pre |-> <<>>].
EmptyTemplate == [g2 |-> FALSE, pre |-> <<>>, suf |-> <<>>]

format_desktop_exec(self, container_name) ==
    CASE self = "Toolbox" ->
           [g2 |-> TRUE,
            pre |-> S_ToolboxExec \o NameChars(container_name) \o <<" ">>,
            suf |-> <<>>]
      [] self = "Podman" ->
           [g2 |-> TRUE,
            pre |-> S_PodmanExec1 \o NameChars(container_name) \o S_PodmanExec2
                      \o NameChars(container_name) \o <<" ">>,
            suf |-> <<"'">>]
      [] OTHER -> EmptyTemplate

format_desktop_name(self, container_name) ==
    CASE self = "Toolbox" ->
           [g2 |-> TRUE,
            pre |-> S_NameEq,
            suf |-> <<" ", "(">> \o NameChars(container_name) \o <<")">>]
      [] OTHER -> EmptyTemplate

----------------------------------------------------------------------------
(* regex::Regex::replace_all, for the two shapes of pattern of the source *)

Expand(tpl, group2) ==
    IF tpl.g2 THEN tpl.pre \o group2 \o tpl.suf ELSE tpl.pre

IsAt(key, t, i) ==
    /\ i + Len(key) - 1 <= Len(t)
    /\ SubSeq(t, i, i + Len(key) - 1) = key

\* the leftmost position at which the literal key occurs, 0 when none
FindKey(key, t) ==
    LET hits == {i \in 1..Len(t) : IsAt(key, t, i)}
    IN IF hits = {} THEN 0 ELSE CHOOSE i \in hits : \A j \in hits : i <= j

\* the first line feed at or after position from, Len(t) + 1 when none
FindEol(t, from) ==
    LET hits == {i \in from..Len(t) : t[i] = NL}
    IN IF hits = {} THEN Len(t) + 1 ELSE CHOOSE i \in hits : \A j \in hits : i <= j

\* The empty pattern matches the empty string at every position 0..Len(t).
RECURSIVE ReplaceAllEmpty(_, _)
ReplaceAllEmpty(tpl, t) ==
    IF t = <<>> THEN Expand(tpl, <<>>)
    ELSE Expand(tpl, <<>>) \o <<Head(t)>> \o ReplaceAllEmpty(tpl, Tail(t))

\* (KEY=\s?)(.*): leftmost match first; \s? takes one white space character
\* when there is one (a line feed included), .* runs to the end of the line;
\* the search resumes after the match.
RECURSIVE ReplaceAllKey(_, _, _)
ReplaceAllKey(key, tpl, t) ==
    LET i == FindKey(key, t)
    IN IF i = 0 THEN t
       ELSE LET k  == i + Len(key)
                g  == IF k <= Len(t) /\ IsSpace(t[k]) THEN k + 1 ELSE k
                e  == FindEol(t, g)
            IN SubSeq(t, 1, i - 1) \o Expand(tpl, SubSeq(t, g, e - 1))
                 \o ReplaceAllKey(key, tpl, SubSeq(t, e, Len(t)))

replace_all(pat, tpl, t) ==
    IF pat = PatNone THEN ReplaceAllEmpty(tpl, t) ELSE ReplaceAllKey(pat, tpl, t)

\* server.rs 136-147 / client.rs 52-63: the exec pass, then the name pass
RewriteText(container_type, container_name, file_text) ==
    LET t1 == replace_all(format_exec_regex_pattern(container_type),
                          format_desktop_exec(container_type, container_name),
                          file_text)
    IN replace_all(format_name_regex_pattern(container_type),
                   format_desktop_name(container_type, container_name),
                   t1)

----------------------------------------------------------------------------
(* main.rs: shell_command and the rewrite of container_client *)

S_CommandNotFound ==
    <<"c", "o", "m", "m", "a", "n", "d", " ", "n", "o", "t", " ", "f", "o", "u", "n", "d">>

\* str::contains
Contains(text, sub) == \E i \in 1..(Len(text) + 1) : IsAt(sub, text, i)

\* a byte that no UTF-8 text holds
BadByte == "0xFF"

\* String::from_utf8(bytes).is_ok()
IsUtf8(bytes) == \A i \in 1..Len(bytes) : bytes[i] # BadByte

\* what a command can print on one of its streams
OutTexts ==
    {<<>>,
     <<"o", "k">>,
     <<"x", ":", " ">> \o S_CommandNotFound \o <<NL>>,
     <<"n", "o", "t", " ", "f", "o", "u", "n", "d">>,
     <<BadByte, " ">> \o S_CommandNotFound}

\* what Command::output() gives: no process, or the exit status and the two
\* captured streams
NoProc == [spawned |-> FALSE, status |-> 0, out |-> <<>>, err |-> <<>>]

ProcResults ==
    {NoProc} \cup [spawned : {TRUE}, status : {0, 1, 127}, out : OutTexts, err : OutTexts]

\* main.rs 293-313
shell_command(p) ==
    IF ~p.spawned THEN "IO"
    ELSE IF ~IsUtf8(p.out) \/ ~IsUtf8(p.err) THEN "panic"
    ELSE IF Contains(p.err, S_CommandNotFound) \/ Contains(p.out, S_CommandNotFound)
         THEN "CommandNotFound"
    ELSE "Ok"

\* main.rs 513-520: the exec regex with the exec template, then the exec
\* regex again with the name template
container_client_text(container_type, container_name, txt) ==
    LET new_text == replace_all(format_exec_regex_pattern(container_type),
                                format_desktop_exec(container_type, container_name),
                                txt)
    IN replace_all(format_exec_regex_pattern(container_type),
                   format_desktop_name(container_type, container_name),
                   new_text)

----------------------------------------------------------------------------
(* Lines of a text *)

RECURSIVE SplitLines(_)
SplitLines(t) ==
    LET e == FindEol(t, 1)
    IN IF e > Len(t) THEN <<t>>
       ELSE <<SubSeq(t, 1, e - 1)>> \o SplitLines(SubSeq(t, e + 1, Len(t)))

RECURSIVE JoinLines(_)
JoinLines(ls) ==
    IF Len(ls) = 0 THEN <<>>
    ELSE IF Len(ls) = 1 THEN ls[1]
    ELSE ls[1] \o <<NL>> \o JoinLines(Tail(ls))

StartsWith(l, key) == IsAt(key, l, 1)

----------------------------------------------------------------------------
(* freedesktop_desktop_entry::DesktopEntry (external crate), as the pass    *)
(* uses it: decode, no_display, icon.  A text decodes when its first line   *)
(* is a group header; a key's value is that of its last Key=Value line.     *)

FindEq(l) ==
    LET hits == {i \in 1..Len(l) : l[i] = "="}
    IN IF hits = {} THEN 0 ELSE CHOOSE i \in hits : \A j \in hits : i <= j

LineKey(l) == SubSeq(l, 1, FindEq(l) - 1)

LineValue(l) == SubSeq(l, FindEq(l) + 1, Len(l))

DecodeOk(file_text) ==
    LET ls == SplitLines(file_text)
    IN Len(ls[1]) > 0 /\ ls[1][1] = "["

\* the indexes of the lines that assign key
KeyLines(file_text, key) ==
    LET ls == SplitLines(file_text)
    IN {i \in 1..Len(ls) : FindEq(ls[i]) > 0 /\ LineKey(ls[i]) \o <<"=">> = key}

HasKey(file_text, key) == KeyLines(file_text, key) # {}

KeyValue(file_text, key) ==
    LET ls == SplitLines(file_text)
        ks == KeyLines(file_text, key)
        last == CHOOSE i \in ks : \A j \in ks : j <= i
    IN LineValue(ls[last])

no_display(file_text) ==
    HasKey(file_text, S_NoDisplayEq) /\ KeyValue(file_text, S_NoDisplayEq) = S_true

----------------------------------------------------------------------------
(* lookup_icon (server.rs 229-283)                                          *)
(* An entry of a walked tree is a record                                    *)
(*   [id, stem, ext, gp, dir]: file stem, extension ("" when none), the     *)
(*   file name of the grandparent directory, and whether it is a directory. *)

\* A u32 is the pair <<v \div 100000, v % 100000>>, compared in that order.
U32_MAX == <<42949, 67295>>
U32_MIN == <<0, 0>>

U32Leq(x, y) == x[1] < y[1] \/ (x[1] = y[1] /\ x[2] <= y[2])

Digits == <<"0", "1", "2", "3", "4", "5", "6", "7", "8", "9">>

DigitVal(c) == (CHOOSE d \in 1..10 : Digits[d] = c) - 1

IsDigit(c) == \E d \in 1..10 : Digits[d] = c

RECURSIVE DecVal(_)
DecVal(s) == IF s = <<>> THEN 0 ELSE 10 * DecVal(SubSeq(s, 1, Len(s) - 1)) + DigitVal(s[Len(s)])

RECURSIVE StripZeros(_)
StripZeros(s) == IF Len(s) > 1 /\ s[1] = "0" THEN StripZeros(Tail(s)) ELSE s

\* str::parse::<u32>: <<-1, -1>> stands for Err (no digit, a character that
\* is no digit, or a value above u32::MAX); one leading + is accepted
ParseU32(str) ==
    LET s0 == IF Len(str) > 1 /\ str[1] = "+" THEN Tail(str) ELSE str
        s == StripZeros(s0)
        n == Len(s)
        v == IF n <= 5 THEN <<0, DecVal(s)>>
             ELSE <<DecVal(SubSeq(s, 1, n - 5)), DecVal(SubSeq(s, n - 4, n))>>
    IN IF s0 = <<>> \/ \E i \in 1..Len(s0) : ~IsDigit(s0[i]) THEN <<-1, -1>>
       ELSE IF n > 10 \/ ~U32Leq(v, U32_MAX) THEN <<-1, -1>>
       ELSE v

\* str::split_once("x"): the part before the first x, <<"?">> stands for None
BeforeX(s) ==
    LET hits == {i \in 1..Len(s) : s[i] = "x"}
    IN IF hits = {} THEN <<"?">>
       ELSE SubSeq(s, 1, (CHOOSE i \in hits : \A j \in hits : i <= j) - 1)

\* a key that does not tell the candidates apart
IconScoreFlat(entry) == U32_MIN

\* the key of max_by_key (server.rs 246-270)
IconScore(entry) ==
    CASE entry.ext = "svg" -> U32_MAX
      [] entry.ext = "png" ->
           IF ParseU32(BeforeX(entry.gp)) # <<-1, -1>> THEN ParseU32(BeforeX(entry.gp))
           ELSE U32_MIN
      [] OTHER -> U32_MIN

\* the entries of a walk whose stem is name, in walk order
RECURSIVE Matching(_, _)
Matching(name, walk) ==
    IF walk = <<>> THEN <<>>
    ELSE (IF Head(walk).stem = name THEN <<Head(walk)>> ELSE <<>>) \o Matching(name, Tail(walk))

NoEntry == [id |-> "none", stem |-> <<>>, ext |-> "", gp |-> <<>>, dir |-> FALSE]

\* the first element among those of maximum key
MaxByKeyFirst(cands) ==
    IF cands = <<>> THEN NoEntry
    ELSE LET best == {i \in 1..Len(cands) :
                        \A j \in 1..Len(cands) : U32Leq(IconScore(cands[j]), IconScore(cands[i]))}
         IN cands[CHOOSE i \in best : \A j \in best : i <= j]

\* Iterator::max_by_key: the last element among those of maximum key
MaxByKey(cands) ==
    IF cands = <<>> THEN NoEntry
    ELSE LET best == {i \in 1..Len(cands) :
                        \A j \in 1..Len(cands) : U32Leq(IconScore(cands[j]), IconScore(cands[i]))}
         IN cands[CHOOSE i \in best : \A j \in best : j <= i]

\* the icon tree alone, without the .or(...) of lines 272-282
lookup_icon_base_only(name, base_walk, pixmap_walk) ==
    MaxByKey(Matching(name, base_walk))

lookup_icon(name, base_walk, pixmap_walk) ==
    LET found == MaxByKey(Matching(name, base_walk))
        pix == Matching(name, pixmap_walk)
    IN IF found # NoEntry THEN found
       ELSE IF pix # <<>> THEN pix[1] ELSE NoEntry

\* the orders in which a walk may yield the entries of a tree
Walks(tree) ==
    {w \in [1..Cardinality(tree) -> tree] : \A i, j \in 1..Cardinality(tree) : w[i] = w[j] => i = j}

----------------------------------------------------------------------------
(* The environment: what the containers hold and what the configuration     *)
(* lists.                                                                   *)

MaxContainers == 2
MaxFaults == 1

\* the owner argument of server(): a container's name or the program's name
Owners == {"a", "cde"}

Container(container_name, container_type) == [name |-> container_name, type |-> container_type]

Containers == {Container(n, t) : n \in ContainerNames, t \in ContainerType}

\* ContainerList.containers is a list of at most MaxContainers
\* (container_name, container_type) pairs; the state holds its length and the
\* pair the loop of server() stands at, and the loop draws each next pair
\* from Containers.
ListLengths == 0..MaxContainers

NoContainer == Container("", "Unknown")

L_Group == S_Group
L_Name(v) == S_NameEq \o v
L_Exec(v) == S_ExecEq \o v
L_Icon(v) == S_IconEq \o v
L_NoDisplay == S_NoDisplayEq \o S_true

\* A harvested descriptor file: its file stem (the appid), its content, and
\* whether read_to_string can read it.
DesktopFile(stem, lines, readable) ==
    [stem |-> stem, text |-> JoinLines(lines), readable |-> readable]

\* what <data dir>/applications of a container holds: the first data
\* directory of each container holds its files, the second holds none;
\* "hid" is marked NoDisplay and "bad" has no group header, so it does not
\* decode
ContainerApps(name, dir) ==
    CASE name = "a" /\ dir = "d1" ->
           {DesktopFile("app", <<L_Group, L_Name(<<"A">>), L_Exec(<<"x">>), L_Icon(<<"i">>)>>, TRUE),
            DesktopFile("gui", <<L_Group, L_Name(<<"G">>), L_Exec(<<"y">>)>>, TRUE),
            DesktopFile("hid", <<L_Group, L_Name(<<"H">>), L_NoDisplay, L_Icon(<<"i">>)>>, TRUE)}
      [] name = "b" /\ dir = "d1" ->
           {DesktopFile("app", <<L_Group, L_Name(<<"B">>), L_Exec(<<"z">>), L_Icon(<<"j">>)>>, TRUE),
            DesktopFile("bad", <<L_Name(<<"C">>)>>, TRUE)}
      [] OTHER -> {}

IconFile(id, stem, ext, gp, dir) == [id |-> id, stem |-> stem, ext |-> ext, gp |-> gp, dir |-> dir]

\* what <data dir>/icons of a container holds
ContainerIcons(name, dir) ==
    CASE name = "a" /\ dir = "d1" ->
           {IconFile("a/48x48/apps/i.png", <<"i">>, "png", <<"4", "8", "x", "4", "8">>, FALSE),
            IconFile("a/scalable/apps/i.svg", <<"i">>, "svg", <<"s", "c">>, FALSE)}
      [] OTHER -> {}

\* what /usr/share/pixmaps of a container holds
ContainerPixmaps(name) ==
    CASE name = "b" -> {IconFile("b/pixmaps/j.png", <<"j">>, "png", <<"t">>, FALSE)}
      [] OTHER -> {}

\* the output of the data-directory query, split on ":"
DataDirs == <<"d1", "d2">>

SubDirs == {"applications", "icons", "pixmaps"}

\* the texts of the desktop files the containers hold
AllTexts == {f.text : f \in UNION {ContainerApps(n, d) : n \in ContainerNames, d \in {"d1", "d2"}}}

\* lines 136-147 applied to every text a supported container can hold,
\* tabulated once
RewriteTable ==
    [k \in {t \in ContainerType : ~not_supported(t)}, n \in ContainerNames, t \in AllTexts |->
        RewriteText(k, n, t)]

----------------------------------------------------------------------------
(* The daemon behind DesktopEntryProxy: what it attributes to each owner    *)

DaemonEmpty == [entries |-> {}, icons |-> {}]

DaemonNewSessionEntry(d, appid, text, o) ==
    [d EXCEPT !.entries = {e \in @ : ~(e.owner = o /\ e.appid = appid)}
                            \cup {[owner |-> o, appid |-> appid, text |-> text]}]

DaemonNewSessionIcon(d, name, bytes, o) ==
    [d EXCEPT !.icons = {e \in @ : ~(e.owner = o /\ e.name = name)}
                          \cup {[owner |-> o, name |-> name, bytes |-> bytes]}]

DaemonRemoveSessionOwner(d, o) ==
    [entries |-> {e \in d.entries : e.owner # o},
     icons |-> {e \in d.icons : e.owner # o}]

----------------------------------------------------------------------------
(* State *)

VARIABLES
    pc,          \* where server() / set_up_client() stands
    owner,       \* the owner argument of the current run
    n_containers, \* the length of the containers argument of the current run
    idx,         \* the position in containers of the current loop iteration
    container,   \* containers[idx]: the (container_name, container_type) of the iteration
    dirs,        \* the workspace directories that exist under tmp_dir
    apps,        \* the files of tmp_dir/applications
    icons,       \* the entries of tmp_dir/icons
    pixmaps,     \* the entries of tmp_dir/pixmaps
    data_dirs,   \* set_up_client: the data directories of the container
    copy_k,      \* set_up_client: the next copy_from_client call, 1..2n+1
    todo,        \* set_up_client: the directory entries read_dir has yet to yield
    cur,         \* set_up_client: the entry whose icon is being looked up
    daemon,      \* the daemon's session entries and icons
    calls,       \* history: the commands and registry calls of the current iteration
    retracted,   \* history: the keys remove_session_owner was called with in this run
    retractOk,   \* history: whether that call returned Ok
    pushed,      \* history: the registrations of this run that returned Ok
    passEnd,     \* history: how the last set_up_client of this run returned
    prev,        \* history: the previous run and what its owner key held after it
    faults,      \* how many calls of the environment have failed so far
    rw,          \* the descriptor rewriter applied to one text
    lk,          \* lookup_icon applied to one icon name and two walked trees
    mn           \* main.rs: main(), container_server(), container_client(), shell_command()

vars == <<pc, owner, n_containers, idx, container, dirs, apps, icons, pixmaps, data_dirs, copy_k,
          todo, cur, daemon, calls, retracted, retractOk, pushed, passEnd, prev, faults, rw, lk, mn>>

serverVars == <<pc, owner, n_containers, idx, container, dirs, apps, icons, pixmaps, data_dirs,
                copy_k, todo, cur, daemon, calls, retracted, retractOk, pushed, passEnd, prev,
                faults>>

NoCur == [appid |-> "", text |-> <<>>, icon |-> <<>>]

RwIdle == [kind |-> "Unknown", name |-> "a", input |-> <<>>, output |-> <<>>, done |-> FALSE,
           twice |-> <<>>, again |-> FALSE]

InitServer ==
    /\ pc = "idle"
    /\ owner \in Owners
    /\ n_containers = 0
    /\ idx = 0
    /\ container = NoContainer
    /\ dirs = {}
    /\ apps = {}
    /\ icons = {}
    /\ pixmaps = {}
    /\ data_dirs = <<>>
    /\ copy_k = 0
    /\ todo = {}
    /\ cur = NoCur
    /\ daemon = DaemonEmpty
    /\ calls = {}
    /\ retracted = {}
    /\ retractOk = FALSE
    /\ pushed = DaemonEmpty
    /\ passEnd = "none"
    /\ prev = [complete |-> FALSE, held |-> FALSE]
    /\ faults = 0

LkIdle == [name |-> <<>>, base |-> <<>>, pix |-> <<>>, result |-> NoEntry, done |-> FALSE]

\* main.rs not running
MnIdle == [pc |-> "m_idle", mode |-> "Server", n |-> 0, idx |-> 0, name |-> "", kind |-> "Unknown",
           proc |-> NoProc, res |-> "none", input |-> <<>>, staged |-> <<>>]

Init == InitServer /\ rw = RwIdle /\ lk = LkIdle /\ mn = MnIdle

\* a command run through shell_command for containers[idx]
ShCall(op) ==
    [op |-> op, idx |-> idx, name |-> container.name, kind |-> container.type, out |-> TRUE,
     tag |-> "", key |-> <<>>, appid |-> "", text |-> <<>>, pre |-> FALSE]

\* a call of the registry proxy made for containers[idx]; pre tells whether
\* remove_session_owner had been called with the same key earlier in the run
RegCall(op, out, tag, key, appid, text) ==
    [op |-> op, idx |-> idx, name |-> container.name, kind |-> container.type, out |-> out,
     tag |-> tag, key |-> key, appid |-> appid, text |-> text, pre |-> tag \in retracted]

Held(d, o) == (\E e \in d.entries : e.owner = o) \/ (\E e \in d.icons : e.owner = o)

RunEnded == pc \in {"idle", "returned_ok", "returned_err", "panicked"}

InPass == pc \in {"c_start", "c_mkdir", "c_query", "c_copy", "c_connect", "c_readdir",
                  "c_entries", "c_icon"}

----------------------------------------------------------------------------
(* server() (server.rs 44-75) *)

\* a call of the environment that may fail: at most MaxFaults of them do
Outcome(failed) ==
    /\ failed => faults < MaxFaults
    /\ faults' = faults + (IF failed THEN 1 ELSE 0)

\* the key server() retracts (line 59)
RetractKeyFirst(o) == "a"

RetractKey(o) == o

\* the key set_up_client() tags its registrations with (lines 158, 180)
PushTagName(name, o) == name

PushTag(name, o) == o

\* lines 45-56: a run starts; tmp_dir exists, or is created, or create_dir
\* fails and unwrap panics
ServerStart ==
    /\ RunEnded
    /\ \E tmp_ok \in BOOLEAN :
         /\ Outcome(~tmp_ok)
         /\ pc' = IF tmp_ok THEN "s_connect" ELSE "panicked"
    /\ n_containers' \in ListLengths
    /\ idx' = 0
    /\ container' = NoContainer
    /\ data_dirs' = <<>>
    /\ copy_k' = 0
    /\ todo' = {}
    /\ cur' = NoCur
    /\ calls' = {}
    /\ retracted' = {}
    /\ retractOk' = FALSE
    /\ pushed' = DaemonEmpty
    /\ passEnd' = "none"
    /\ prev' = [complete |-> pc = "returned_ok", held |-> Held(daemon, owner)]
    /\ UNCHANGED <<owner, dirs, apps, icons, pixmaps, daemon, rw, lk, mn>>

\* lines 57-58: Connection::session() and DesktopEntryProxy::new(), each with ?
ServerConnect ==
    /\ pc = "s_connect"
    /\ \E ok \in BOOLEAN :
         /\ Outcome(~ok)
         /\ pc' = IF ok THEN "s_retract" ELSE "returned_err"
    /\ UNCHANGED <<owner, n_containers, idx, container, dirs, apps, icons, pixmaps, data_dirs, copy_k,
                   todo, cur, daemon, calls, retracted, retractOk, pushed, passEnd, prev, rw, lk, mn>>

\* lines 59-61 with the call left out
ServerRetractSkipped ==
    /\ pc = "s_retract"
    /\ pc' = "s_loop"
    /\ UNCHANGED <<owner, n_containers, idx, container, dirs, apps, icons, pixmaps, data_dirs, copy_k,
                   todo, cur, daemon, calls, retracted, retractOk, pushed, passEnd, prev,
                   faults, rw, lk, mn>>

\* lines 59-61: remove_session_owner(owner); an Err is logged and the run goes on
ServerRetract ==
    /\ pc = "s_retract"
    /\ \E ok \in BOOLEAN :
         /\ Outcome(~ok)
         /\ daemon' = IF ok THEN DaemonRemoveSessionOwner(daemon, RetractKey(owner)) ELSE daemon
         /\ retractOk' = ok
    /\ retracted' = retracted \cup {RetractKey(owner)}
    /\ pc' = "s_loop"
    /\ UNCHANGED <<owner, n_containers, idx, container, dirs, apps, icons, pixmaps, data_dirs, copy_k,
                   todo, cur, calls, pushed, passEnd, prev, rw, lk, mn>>

\* lines 62-74: the next container of the list; an unsupported kind is logged
\* and skipped; after the last one server() returns Ok
ServerLoop ==
    /\ pc = "s_loop"
    /\ IF idx = n_containers
       THEN /\ pc' = "returned_ok"
            /\ UNCHANGED <<idx, container, calls, passEnd>>
       ELSE /\ idx' = idx + 1
            /\ calls' = {}
            /\ \E c \in Containers :
                 IF not_supported(c.type)
                 THEN /\ container' = NoContainer /\ passEnd' = "unsupported" /\ pc' = "s_loop"
                 ELSE /\ container' = c /\ passEnd' = "none" /\ pc' = "c_start"
    /\ UNCHANGED <<owner, n_containers, dirs, apps, icons, pixmaps, data_dirs, copy_k,
                   todo, cur, daemon, retracted, retractOk, pushed, prev, faults, rw, lk, mn>>

----------------------------------------------------------------------------
(* set_up_client() (server.rs 77-227) for containers[idx]                   *)
(* shell_command (316-339) returns Ok whatever the exit status, and panics  *)
(* (expect / unwrap) when sh cannot be spawned or the output is not UTF-8.   *)

ShOutcomes == {"ok", "fail", "panic"}

container_name == container.name
container_type == container.type

\* line 84: start_client
StartClient ==
    /\ pc = "c_start"
    /\ \E out \in ShOutcomes :
         /\ Outcome(out # "ok")
         /\ calls' = calls \cup {ShCall("start")}
         /\ pc' = IF out = "panic" THEN "panicked" ELSE "c_mkdir"
    /\ UNCHANGED <<owner, n_containers, idx, container, dirs, apps, icons, pixmaps, data_dirs, copy_k,
                   todo, cur, daemon, retracted, retractOk, pushed, passEnd, prev, rw, lk, mn>>

\* lines 85-87: the three create_dir calls, their results dropped
MkDirs ==
    /\ pc = "c_mkdir"
    /\ \E ok \in BOOLEAN :
         /\ Outcome(~ok)
         /\ dirs' = IF ok THEN SubDirs ELSE dirs
    /\ pc' = "c_query"
    /\ UNCHANGED <<owner, n_containers, idx, container, apps, icons, pixmaps, data_dirs, copy_k,
                   todo, cur, daemon, calls, retracted, retractOk, pushed, passEnd, prev, rw, lk, mn>>

\* lines 89-98: the data-directory query; a failed command prints nothing,
\* which splits into the one empty path
Query ==
    /\ pc = "c_query"
    /\ \E out \in ShOutcomes :
         /\ Outcome(out # "ok")
         /\ calls' = calls \cup {ShCall("exec")}
         /\ data_dirs' = IF out = "ok" THEN DataDirs ELSE <<"">>
         /\ pc' = IF out = "panic" THEN "panicked" ELSE "c_copy"
    /\ copy_k' = 1
    /\ UNCHANGED <<owner, n_containers, idx, container, dirs, apps, icons, pixmaps,
                   todo, cur, daemon, retracted, retractOk, pushed, passEnd, prev, rw, lk, mn>>

\* podman container cp SRC/. DST/: the files of SRC replace those of the same name
CopyInto(old, new, field) ==
    {f \in old : \A g \in new : g[field] # f[field]} \cup new

CopySub(k) ==
    IF k = 2 * Len(data_dirs) + 1 THEN "pixmaps"
    ELSE IF k % 2 = 1 THEN "applications" ELSE "icons"

CopyDir(k) == data_dirs[(k + 1) \div 2]

\* the position after the k-th copy if a failed copy ended the pass
AfterCopyFailAbort(k) == "s_loop"

\* lines 99-118 with 316-339: copy_from_client(...)? gets Ok whatever the exit
\* status of the copy command, so the next copy follows, and the pass's
\* connection follows the last one
AfterCopyFail(k) == IF k = 2 * Len(data_dirs) + 1 THEN "c_connect" ELSE "c_copy"

\* lines 99-118: one copy_from_client call; the copy succeeds only into an
\* existing directory
CopyOut ==
    /\ pc = "c_copy"
    /\ \E out \in ShOutcomes :
         /\ out = "ok" => CopySub(copy_k) \in dirs
         /\ Outcome(out # "ok" /\ CopySub(copy_k) \in dirs)
         /\ calls' = calls \cup {ShCall("copy")}
         /\ apps' = IF out = "ok" /\ CopySub(copy_k) = "applications"
                    THEN CopyInto(apps, ContainerApps(container_name, CopyDir(copy_k)), "stem")
                    ELSE apps
         /\ icons' = IF out = "ok" /\ CopySub(copy_k) = "icons"
                     THEN CopyInto(icons, ContainerIcons(container_name, CopyDir(copy_k)), "id")
                     ELSE icons
         /\ pixmaps' = IF out = "ok" /\ CopySub(copy_k) = "pixmaps"
                       THEN CopyInto(pixmaps, ContainerPixmaps(container_name), "id")
                       ELSE pixmaps
         /\ pc' = IF out = "panic" THEN "panicked"
                  ELSE IF out = "fail" THEN AfterCopyFail(copy_k)
                  ELSE IF copy_k = 2 * Len(data_dirs) + 1 THEN "c_connect" ELSE "c_copy"
    /\ copy_k' = copy_k + 1
    /\ UNCHANGED <<owner, n_containers, idx, container, dirs, data_dirs,
                   todo, cur, daemon, retracted, retractOk, pushed, passEnd, prev, rw, lk, mn>>

\* lines 119-120: the pass's own connection; ? returns the Err to server(),
\* which logs it (70-72)
PassConnect ==
    /\ pc = "c_connect"
    /\ \E ok \in BOOLEAN :
         /\ Outcome(~ok)
         /\ pc' = IF ok THEN "c_readdir" ELSE "s_loop"
         /\ passEnd' = IF ok THEN passEnd ELSE "err"
         /\ container' = IF ok THEN container ELSE NoContainer
         /\ data_dirs' = IF ok THEN data_dirs ELSE <<>>
         /\ copy_k' = IF ok THEN copy_k ELSE 0
    /\ UNCHANGED <<owner, n_containers, idx, dirs, apps, icons, pixmaps,
                   todo, cur, daemon, calls, retracted, retractOk, pushed, prev, rw, lk, mn>>

\* line 126: fs::read_dir(applications).unwrap()
ReadDir ==
    /\ pc = "c_readdir"
    /\ IF "applications" \in dirs
       THEN pc' = "c_entries" /\ todo' = apps
       ELSE pc' = "panicked" /\ todo' = todo
    /\ UNCHANGED <<owner, n_containers, idx, container, dirs, apps, icons, pixmaps, data_dirs, copy_k,
                   cur, daemon, calls, retracted, retractOk, pushed, passEnd, prev, faults, rw, lk, mn>>

\* where the pass would stand had a failed push ended the loop
AfterPushErrAbort == "s_loop"

\* lines 190-192, 200-202: the Err of a push is logged and the loop over the
\* directory entries goes on
AfterPushErr == "c_entries"

\* the icon looked up whatever the push of the entry returned
LooksUpIconAlways(ok, file_text) == HasKey(file_text, S_IconEq)

\* lines 161-163: the icon is looked up in the Ok arm of the push of the
\* entry, when the entry names an icon
LooksUpIcon(ok, file_text) == ok /\ HasKey(file_text, S_IconEq)

\* lines 152-155: a decoded entry with NoDisplay=true is not pushed
SkipsNoDisplayNever(file_text) == FALSE

SkipsNoDisplay(file_text) == no_display(file_text)

\* lines 126-162, 200-222: one directory entry: read, rewrite, decode,
\* NoDisplay, new_session_entry
EntryStep ==
    /\ pc = "c_entries"
    /\ \E f \in todo :
         LET file_text == RewriteTable[container_type, container_name, f.text]
             tag == PushTag(container_name, owner)
         IN /\ todo' = todo \ {f}
            /\ IF f.readable /\ DecodeOk(file_text) /\ ~SkipsNoDisplay(file_text)
               THEN \E ok \in BOOLEAN :
                    /\ Outcome(~ok)
                    /\ calls' = calls \cup
                         {RegCall("new_session_entry", ok, tag, <<>>, f.stem, file_text)}
                    /\ daemon' = IF ok
                                 THEN DaemonNewSessionEntry(daemon, f.stem, file_text, tag)
                                 ELSE daemon
                    /\ pushed' = IF ok
                                 THEN [pushed EXCEPT !.entries = @ \cup
                                         {[owner |-> tag, appid |-> f.stem, text |-> file_text]}]
                                 ELSE pushed
                    /\ IF LooksUpIcon(ok, file_text)
                       THEN /\ cur' = [appid |-> f.stem, text |-> file_text,
                                       icon |-> KeyValue(file_text, S_IconEq)]
                            /\ pc' = "c_icon"
                       ELSE /\ cur' = cur
                            /\ pc' = IF ok THEN pc ELSE AfterPushErr
               ELSE UNCHANGED <<calls, daemon, pushed, cur, pc, faults>>
    /\ UNCHANGED <<owner, n_containers, idx, container, dirs, apps, icons, pixmaps, data_dirs, copy_k,
                   retracted, retractOk, passEnd, prev, rw, lk, mn>>

\* lines 164-174: the path lookup_icon returned is read and pushed when its
\* extension is png or svg, and only then
PushesIcon(icon_path) == icon_path # NoEntry /\ icon_path.ext \in {"png", "svg"}

\* lines 163-198: lookup_icon over the two trees, in whatever order the walks
\* yield them; a .png or .svg result is read (unwrap) and pushed
IconStep ==
    /\ pc = "c_icon"
    /\ \E bw \in Walks(icons), pw \in Walks(pixmaps) :
         LET icon_path == lookup_icon(cur.icon, bw, pw)
             tag == PushTag(container_name, owner)
         IN IF PushesIcon(icon_path)
            THEN \E out \in {"ok", "err", "panic"} :
                 /\ Outcome(out # "ok")
                 /\ calls' = IF out = "panic" THEN calls
                             ELSE calls \cup {RegCall("new_session_icon", out = "ok", tag,
                                                      cur.icon, cur.appid, cur.text)}
                 /\ daemon' = IF out = "ok"
                              THEN DaemonNewSessionIcon(daemon, cur.icon, icon_path.id, tag)
                              ELSE daemon
                 /\ pushed' = IF out = "ok"
                              THEN [pushed EXCEPT !.icons = @ \cup
                                      {[owner |-> tag, name |-> cur.icon, bytes |-> icon_path.id]}]
                              ELSE pushed
                 /\ pc' = IF out = "panic" THEN "panicked"
                          ELSE IF out = "err" THEN AfterPushErr ELSE "c_entries"
            ELSE /\ pc' = "c_entries"
                 /\ UNCHANGED <<calls, daemon, pushed, faults>>
    /\ cur' = NoCur
    /\ UNCHANGED <<owner, n_containers, idx, container, dirs, apps, icons, pixmaps, data_dirs, copy_k,
                   todo, retracted, retractOk, passEnd, prev, rw, lk, mn>>

\* a pass that ends by retracting the owner's registrations
CleanUpRetracting ==
    /\ pc = "c_entries"
    /\ todo = {}
    /\ daemon' = DaemonRemoveSessionOwner(daemon, RetractKey(owner))
    /\ dirs' = dirs \ SubDirs
    /\ apps' = {}
    /\ icons' = {}
    /\ pixmaps' = {}
    /\ passEnd' = "ok"
    /\ container' = NoContainer
    /\ data_dirs' = <<>>
    /\ copy_k' = 0
    /\ pc' = "s_loop"
    /\ UNCHANGED <<owner, n_containers, idx, todo, cur, calls,
                   retracted, retractOk, pushed, prev, faults, rw, lk, mn>>

\* lines 223-226: the three remove_dir_all calls, then Ok(())
CleanUp ==
    /\ pc = "c_entries"
    /\ todo = {}
    /\ dirs' = dirs \ SubDirs
    /\ apps' = {}
    /\ icons' = {}
    /\ pixmaps' = {}
    /\ passEnd' = "ok"
    /\ container' = NoContainer
    /\ data_dirs' = <<>>
    /\ copy_k' = 0
    /\ pc' = "s_loop"
    /\ UNCHANGED <<owner, n_containers, idx, todo, cur, daemon, calls,
                   retracted, retractOk, pushed, prev, faults, rw, lk, mn>>

----------------------------------------------------------------------------
(* client() (client.rs 31-109), run inside the container container_name     *)

\* the .desktop files freedesktop_desktop_entry::Iter finds under
\* default_paths() inside the container
LocalApps(name) == UNION {ContainerApps(name, DataDirs[i]) : i \in DOMAIN DataDirs}

\* freedesktop_icon_lookup::Cache::lookup (external crate): some file of the
\* container's icon directories whose stem is the icon name, or none
LocalIcons(name, icon) ==
    {f \in UNION {ContainerIcons(name, DataDirs[i]) : i \in DOMAIN DataDirs}
             \cup ContainerPixmaps(name) : f.stem = icon /\ ~f.dir}

\* the connection the daemon attributes a client's registrations to
Peer == "peer"

\* the program is started as a client, with its two arguments
ClientStart ==
    /\ pc = "idle"
    /\ container' \in Containers
    /\ pc' = "cl_connect"
    /\ UNCHANGED <<owner, n_containers, idx, dirs, apps, icons, pixmaps, data_dirs, copy_k,
                   todo, cur, daemon, calls, retracted, retractOk, pushed, passEnd, prev,
                   faults, rw, lk, mn>>

\* lines 35-38: Connection::session(), DesktopEntryProxy::new() and
\* Cache::new(), each with ?
ClientConnect ==
    /\ pc = "cl_connect"
    /\ \E ok \in BOOLEAN :
         /\ Outcome(~ok)
         /\ pc' = IF ok THEN "cl_entries" ELSE "cl_returned_err"
         /\ todo' = IF ok THEN LocalApps(container_name) ELSE {}
         /\ container' = IF ok THEN container ELSE NoContainer
    /\ UNCHANGED <<owner, n_containers, idx, dirs, apps, icons, pixmaps, data_dirs, copy_k,
                   cur, daemon, calls, retracted, retractOk, pushed, passEnd, prev, rw, lk, mn>>

\* lines 48-73, 99-101: one file: read, rewrite, decode, NoDisplay,
\* register_entry
ClientEntry ==
    /\ pc = "cl_entries"
    /\ \E f \in todo :
         LET file_text == RewriteText(container_type, container_name, f.text)
         IN /\ todo' = todo \ {f}
            /\ IF f.readable /\ DecodeOk(file_text) /\ ~SkipsNoDisplay(file_text)
               THEN \E ok \in BOOLEAN :
                    /\ Outcome(~ok)
                    /\ calls' = calls \cup
                         {RegCall("register_entry", ok, Peer, <<>>, f.stem, file_text)}
                    /\ daemon' = IF ok
                                 THEN DaemonNewSessionEntry(daemon, f.stem, file_text, Peer)
                                 ELSE daemon
                    /\ IF ok /\ HasKey(file_text, S_IconEq)
                       THEN /\ cur' = [appid |-> f.stem, text |-> file_text,
                                       icon |-> KeyValue(file_text, S_IconEq)]
                            /\ pc' = "cl_icon"
                       ELSE UNCHANGED <<cur, pc>>
               ELSE UNCHANGED <<calls, daemon, cur, pc, faults>>
    /\ UNCHANGED <<owner, n_containers, idx, container, dirs, apps, icons, pixmaps, data_dirs,
                   copy_k, retracted, retractOk, pushed, passEnd, prev, rw, lk, mn>>

\* lines 74-96: the icon of the registered entry: a .png or .svg file the
\* lookup finds is read (unwrap) and registered
ClientIcon ==
    /\ pc = "cl_icon"
    /\ \E icon_path \in LocalIcons(container_name, cur.icon) \cup {NoEntry} :
         IF icon_path # NoEntry /\ icon_path.ext \in {"png", "svg"}
         THEN \E out \in {"ok", "err", "panic"} :
              /\ Outcome(out # "ok")
              /\ calls' = IF out = "panic" THEN calls
                          ELSE calls \cup {RegCall("register_icon", out = "ok", Peer,
                                                   cur.icon, cur.appid, cur.text)}
              /\ daemon' = IF out = "ok"
                           THEN DaemonNewSessionIcon(daemon, cur.icon, icon_path.id, Peer)
                           ELSE daemon
              /\ pc' = IF out = "panic" THEN "cl_panicked" ELSE "cl_entries"
         ELSE /\ pc' = "cl_entries"
              /\ UNCHANGED <<calls, daemon, faults>>
    /\ cur' = NoCur
    /\ UNCHANGED <<owner, n_containers, idx, container, dirs, apps, icons, pixmaps, data_dirs,
                   copy_k, todo, retracted, retractOk, pushed, passEnd, prev, rw, lk, mn>>

\* lines 105-108: every file seen, the client waits on a future that never
\* completes
ClientPend ==
    /\ pc = "cl_entries"
    /\ todo = {}
    /\ pc' = "cl_pending"
    /\ UNCHANGED <<owner, n_containers, idx, container, dirs, apps, icons, pixmaps, data_dirs,
                   copy_k, todo, cur, daemon, calls, retracted, retractOk, pushed, passEnd,
                   prev, faults, rw, lk, mn>>

\* the client returning Ok once the loop over the files is over
ClientReturnsOk ==
    /\ pc = "cl_pending"
    /\ pc' = "cl_returned_ok"
    /\ UNCHANGED <<owner, n_containers, idx, container, dirs, apps, icons, pixmaps, data_dirs,
                   copy_k, todo, cur, daemon, calls, retracted, retractOk, pushed, passEnd,
                   prev, faults, rw, lk, mn>>

\* lines 105-108: each turn of the loop awaits a future that never
\* completes, so the client stays where it is
ClientBlocked ==
    /\ pc = "cl_pending"
    /\ UNCHANGED vars

Next ==
    \/ ServerStart
    \/ ServerConnect
    \/ ServerRetract
    \/ ServerLoop
    \/ StartClient
    \/ MkDirs
    \/ Query
    \/ CopyOut
    \/ PassConnect
    \/ ReadDir
    \/ EntryStep
    \/ IconStep
    \/ CleanUp
    \/ ClientStart
    \/ ClientConnect
    \/ ClientEntry
    \/ ClientIcon
    \/ ClientPend
    \/ ClientBlocked

Spec == Init /\ [][Next]_vars

----------------------------------------------------------------------------
(* Properties of server() *)

Pushes == {"new_session_entry", "new_session_icon"}

OwnedBy(d, o) ==
    [entries |-> {e \in d.entries : e.owner = o}, icons |-> {e \in d.icons : e.owner = o}]

\* the daemon attributes to the owner key exactly what the current run
\* pushed: the same appids and icon names, each with a value this run pushed
ExactlyThisRun ==
    LET held == OwnedBy(daemon, owner)
    IN /\ {e.appid : e \in held.entries} = {e.appid : e \in pushed.entries}
       /\ {e.name : e \in held.icons} = {e.name : e \in pushed.icons}
       /\ held.entries \subseteq pushed.entries
       /\ held.icons \subseteq pushed.icons

C2_RetractionPrecedesPush ==
    \A c \in calls : c.op \in Pushes => c.pre

C2_Witness ==
    /\ ~retractOk
    /\ \E c \in calls : c.op = "new_session_entry" /\ c.pre
    /\ \E c \in calls : c.op = "new_session_icon" /\ c.pre

C4_WorkspaceRemoved ==
    passEnd \in {"ok", "err"} => dirs \cap SubDirs = {}

Registrations == Pushes \cup {"register_entry", "register_icon"}

\* C5: no registration call, for the entry or for its icon, is issued for a
\* descriptor that decodes with its NoDisplay flag set.
C5_NoDisplayNeverPushed ==
    \A c \in calls : c.op \in Registrations => ~(DecodeOk(c.text) /\ no_display(c.text))

\* a NoDisplay descriptor was harvested and the loop has gone past it, and
\* other descriptors of the same pass were pushed
C5_Witness ==
    /\ pc = "c_entries"
    /\ \E f \in apps \ todo :
         LET file_text == RewriteText(container_type, container_name, f.text)
         IN f.readable /\ DecodeOk(file_text) /\ no_display(file_text)
    /\ \E c \in calls : c.op = "new_session_entry"

\* C6: when the pass for container i ends server() by a panic, no container
\* is listed after i: every listed container's pass is attempted.
C6_LaterPassesAttempted ==
    (pc = "panicked" /\ idx >= 1) => idx = n_containers

Unsupported == {"Podman", "Docker", "Unknown"}

ServerCalls == {"start", "exec", "copy"} \cup Pushes

\* C7: for a container of kind Podman, Docker or Unknown no shell command is
\* run and no registry call is issued, no step of set_up_client is taken, and
\* server() stands at the head of its loop again.
C7_UnsupportedSkipped ==
    /\ \A c \in calls : c.op \in ServerCalls => c.kind \notin Unsupported
    /\ InPass => container.type \notin Unsupported
    /\ passEnd = "unsupported" => (calls = {} /\ pc \in {"s_loop", "returned_ok"})

\* an unsupported container was skipped and the loop goes on to the next one
C7_Witness ==
    /\ passEnd = "unsupported"
    /\ pc = "s_loop"
    /\ idx >= 1
    /\ idx < n_containers

----------------------------------------------------------------------------
(* The descriptor rewriter on its own: server.rs 136-147 and client.rs      *)
(* 52-63 apply the same two replace_all calls to the text of a file, for    *)
(* the kind and name of the container.                                      *)

MaxLines == 2

\* lines a descriptor can hold: the two fields with and without a value and
\* with a blank after the "=", keys that end in Exec or Name, a localized
\* name, a value that contains Exec=, and a line of another key
SampleLines ==
    {S_ExecEq \o <<"v">>,
     S_ExecEq,
     S_ExecEq \o <<" ", "v">>,
     S_NameEq \o <<"w">>,
     S_NameEq,
     <<"T", "r", "y">> \o S_ExecEq \o <<"v">>,
     <<"G", "e", "n", "e", "r", "i", "c">> \o S_NameEq \o <<"w">>,
     <<"N", "a", "m", "e", "[", "x", "]", "=", "w">>,
     <<"X", "=">> \o S_ExecEq \o <<"v">>,
     S_IconEq \o <<"i">>}

RewriteInputs ==
    UNION {{JoinLines(ls) : ls \in [1..n -> SampleLines]} : n \in 1..MaxLines}

InitRewrite ==
    /\ InitServer
    /\ owner = "cde"
    /\ rw \in [kind : ContainerType, name : ContainerNames, input : RewriteInputs,
               output : {<<>>}, done : {FALSE}, twice : {<<>>}, again : {FALSE}]
    /\ lk = LkIdle
    /\ mn = MnIdle

\* the exec pass and the name pass over one text
ApplyRewrite ==
    /\ ~rw.done
    /\ rw' = [rw EXCEPT !.output = RewriteText(rw.kind, rw.name, rw.input), !.done = TRUE]
    /\ UNCHANGED <<serverVars, lk, mn>>

\* the two passes over a text that is itself the output of the two passes
ApplyRewriteAgain ==
    /\ rw.done
    /\ ~rw.again
    /\ rw' = [rw EXCEPT !.twice = RewriteText(rw.kind, rw.name, rw.output), !.again = TRUE]
    /\ UNCHANGED <<serverVars, lk, mn>>

NextRewrite == ApplyRewrite \/ ApplyRewriteAgain

SpecRewrite == InitRewrite /\ [][NextRewrite]_vars

----------------------------------------------------------------------------
(* Properties of the rewriter *)

\* the value of a Key=Value line: what follows the key and one optional blank
FieldValue(l, key) ==
    LET k == Len(key) + 1
    IN IF k <= Len(l) /\ IsSpace(l[k]) THEN SubSeq(l, k + 1, Len(l)) ELSE SubSeq(l, k, Len(l))

ExactKey(l) == StartsWith(l, S_ExecEq) \/ StartsWith(l, S_NameEq)

Range(f) == {f[i] : i \in DOMAIN f}

\* C8: for the Toolbox kind and container name N, every line Exec=V of the
\* input is the line Exec=toolbox run -c N V of the output and every line
\* Name=V is the line Name=V (N), each at the place of the original.
C8_ToolboxRewrite ==
    (rw.done /\ rw.kind = "Toolbox") =>
        LET in == SplitLines(rw.input)
            out == SplitLines(rw.output)
            N == <<rw.name>>
        IN /\ Len(out) = Len(in)
           /\ \A i \in 1..Len(in) :
                /\ StartsWith(in[i], S_ExecEq) =>
                     out[i] = <<"E", "x", "e", "c", "=", "t", "o", "o", "l", "b", "o", "x", " ",
                                "r", "u", "n", " ", "-", "c", " ">> \o N \o <<" ">>
                                \o FieldValue(in[i], S_ExecEq)
                /\ StartsWith(in[i], S_NameEq) =>
                     out[i] = S_NameEq \o FieldValue(in[i], S_NameEq) \o <<" ", "(">> \o N \o <<")">>

\* C9: the output has the lines of the input, and every line whose key is
\* not exactly Exec or Name is the same in both.
C9_OnlyExecAndName ==
    rw.done =>
        LET in == SplitLines(rw.input)
            out == SplitLines(rw.output)
        IN /\ Len(out) = Len(in)
           /\ \A i \in 1..Len(in) : ~ExactKey(in[i]) => out[i] = in[i]

\* C10: for Docker and Unknown, whose two templates are empty, the output is
\* the input; for Podman, whose name template is empty, every Name= line of
\* the input is a line of the output.
C10_EmptyTemplateNoOp ==
    rw.done =>
        /\ rw.kind \in {"Docker", "Unknown"} => rw.output = rw.input
        /\ rw.kind = "Podman" =>
             \A l \in Range(SplitLines(rw.input)) :
                 StartsWith(l, S_NameEq) => l \in Range(SplitLines(rw.output))

----------------------------------------------------------------------------
(* lookup_icon on its own: an icon name and the two trees, each in the      *)
(* order its walk yields the entries                                        *)

MaxTree == 3

S_U32Max == <<"4", "2", "9", "4", "9", "6", "7", "2", "9", "5">>

P_svg == IconFile("icons/scalable/apps/i.svg", <<"i">>, "svg", <<"s", "c">>, FALSE)
P_48 == IconFile("icons/48x48/apps/i.png", <<"i">>, "png", <<"4", "8", "x", "4", "8">>, FALSE)
P_48b == IconFile("icons/48x48/mimetypes/i.png", <<"i">>, "png", <<"4", "8", "x", "4", "8">>, FALSE)
P_96 == IconFile("icons/96x96/apps/i.png", <<"i">>, "png", <<"9", "6", "x", "9", "6">>, FALSE)
P_max == IconFile("icons/4294967295x4294967295/apps/i.png", <<"i">>, "png",
                  S_U32Max \o <<"x">> \o S_U32Max, FALSE)
P_bad == IconFile("icons/hicolor/apps/i.png", <<"i">>, "png", <<"h", "i">>, FALSE)
P_dir == IconFile("icons/i", <<"i">>, "", <<"t">>, TRUE)
P_other == IconFile("icons/48x48/apps/j.png", <<"j">>, "png", <<"4", "8", "x", "4", "8">>, FALSE)

\* what the icon tree may hold
IconPool == {P_svg, P_48, P_48b, P_96, P_max, P_bad, P_dir, P_other}

X_png == IconFile("pixmaps/i.png", <<"i">>, "png", <<"t">>, FALSE)
X_xpm == IconFile("pixmaps/i.xpm", <<"i">>, "xpm", <<"t">>, FALSE)
X_other == IconFile("pixmaps/j.png", <<"j">>, "png", <<"t">>, FALSE)

\* what the pixmap tree may hold
PixmapPool == {X_png, X_xpm, X_other}

\* the walks of the trees of at most MaxTree entries drawn from a pool
WalksOf(pool) ==
    UNION {Walks(t) : t \in {u \in SUBSET pool : Cardinality(u) <= MaxTree}}

InitIcon ==
    /\ InitServer
    /\ owner = "cde"
    /\ rw = RwIdle
    /\ lk \in [name : {<<"i">>}, base : WalksOf(IconPool), pix : WalksOf(PixmapPool),
               result : {NoEntry}, done : {FALSE}]
    /\ mn = MnIdle

ApplyLookup ==
    /\ ~lk.done
    /\ lk' = [lk EXCEPT !.result = lookup_icon(lk.name, lk.base, lk.pix), !.done = TRUE]
    /\ UNCHANGED <<serverVars, rw, mn>>

NextIcon == ApplyLookup

SpecIcon == InitIcon /\ [][NextIcon]_vars

----------------------------------------------------------------------------
(* Properties of lookup_icon *)

\* the entries of the icon tree and of the pixmap tree whose stem is the
\* icon name, as positions of the walks
BaseHits == {i \in DOMAIN lk.base : lk.base[i].stem = lk.name}
PixHits == {i \in DOMAIN lk.pix : lk.pix[i].stem = lk.name}

\* the size a pool entry's directory states, <<-1, -1>> when it states none
DirSize(e) ==
    CASE e \in {P_48, P_48b, P_other} -> <<0, 48>>
      [] e = P_96 -> <<0, 96>>
      [] e = P_max -> <<42949, 67295>>
      [] OTHER -> <<-1, -1>>

\* C11: when the icon tree holds an .svg candidate and a .png candidate for
\* the name, lookup_icon returns an .svg candidate, whatever the size
\* directory of the .png and whatever the order of the walk.
C11_VectorPreferred ==
    (/\ lk.done
     /\ \E i \in BaseHits : lk.base[i].ext = "svg"
     /\ \E i \in BaseHits : lk.base[i].ext = "png")
    => lk.result.ext = "svg"

\* C12: when every candidate of the icon tree is a .png under a directory
\* that states a size, the sizes pairwise distinct, lookup_icon returns the
\* candidate of the largest size whatever the order of the walk; and a .png
\* whose directory states no size has the minimum score.
C12_LargestRaster ==
    lk.done =>
        /\ (/\ BaseHits # {}
            /\ \A i \in BaseHits : lk.base[i].ext = "png" /\ DirSize(lk.base[i]) # <<-1, -1>>
            /\ \A i, j \in BaseHits : DirSize(lk.base[i]) = DirSize(lk.base[j]) => i = j)
           => \E i \in BaseHits :
                 /\ lk.result = lk.base[i]
                 /\ \A j \in BaseHits : U32Leq(DirSize(lk.base[j]), DirSize(lk.base[i]))
        /\ \A i \in BaseHits :
             (lk.base[i].ext = "png" /\ DirSize(lk.base[i]) = <<-1, -1>>)
                => IconScore(lk.base[i]) = U32_MIN

\* the 48x48 candidate is walked after the 96x96 one, and the 96x96 one is
\* returned
C12_Witness ==
    /\ lk.done
    /\ \E i, j \in BaseHits : i < j /\ lk.base[i] = P_96 /\ lk.base[j] = P_48
    /\ \A i \in BaseHits : lk.base[i] \in {P_96, P_48}
    /\ lk.result = P_96

\* the candidates of maximum score, as positions of the walk
TopHits ==
    {i \in BaseHits : \A j \in BaseHits : U32Leq(IconScore(lk.base[j]), IconScore(lk.base[i]))}

\* C13 (as amended): when several candidates of the icon tree share the
\* maximum score, lookup_icon returns the one the walk yields last.
C13_LastMaxWins ==
    (lk.done /\ BaseHits # {}) =>
        \E i \in TopHits : lk.result = lk.base[i] /\ \A j \in TopHits : j <= i

C13_Witness ==
    /\ lk.done
    /\ Cardinality(TopHits) >= 2
    /\ \E i, j \in TopHits : i < j /\ lk.result = lk.base[j] /\ lk.result # lk.base[i]

\* C13 (as stated): when several candidates share the maximum score,
\* lookup_icon returns the one the walk yields first.
C13_FirstMaxWins ==
    (lk.done /\ BaseHits # {}) =>
        \E i \in TopHits : lk.result = lk.base[i] /\ \A j \in TopHits : i <= j

\* C14: lookup_icon returns an entry of the pixmap tree only when no entry
\* of the icon tree has the name as its stem, and then the first such entry
\* of the pixmap walk; it returns None exactly when neither tree has one.
C14_PixmapFallback ==
    lk.done =>
        /\ (\E i \in DOMAIN lk.pix : lk.result = lk.pix[i]) => BaseHits = {}
        /\ (BaseHits = {} /\ PixHits # {}) =>
              \E i \in PixHits : lk.result = lk.pix[i] /\ \A j \in PixHits : i <= j
        /\ lk.result = NoEntry <=> (BaseHits = {} /\ PixHits = {})

\* no candidate in the icon tree, two in the pixmap tree, the first returned
C14_Witness ==
    /\ lk.done
    /\ BaseHits = {}
    /\ lk.base # <<>>
    /\ Cardinality(PixHits) = 2
    /\ \E i, j \in PixHits : i < j /\ lk.result = lk.pix[i]

----------------------------------------------------------------------------
(* Properties of the stages of a pass *)

EntryCalls == {"new_session_entry", "register_entry"}
IconCalls == {"new_session_icon", "register_icon"}

\* a file whose rewritten text decodes and is not marked NoDisplay
Visible(f) ==
    LET file_text == RewriteText(container_type, container_name, f.text)
    IN f.readable /\ DecodeOk(file_text) /\ ~no_display(file_text)

\* the registration of every visible file among files was attempted
AllAttempted(files) ==
    \A f \in files : Visible(f) => \E c \in calls : c.op \in EntryCalls /\ c.appid = f.stem

\* for every registered entry whose icon is in the workspace, the
\* registration of the icon was attempted
IconsAttempted ==
    \A c \in calls :
        (/\ c.op = "new_session_entry"
         /\ c.out
         /\ HasKey(c.text, S_IconEq)
         /\ \E e \in icons \cup pixmaps : e.stem = KeyValue(c.text, S_IconEq))
        => \E d \in calls : d.op = "new_session_icon" /\ d.appid = c.appid

\* a step in which a registration call returns Err
RegErrStep ==
    /\ pc \in {"c_entries", "c_icon", "cl_entries", "cl_icon"}
    /\ faults' = faults + 1
    /\ pc' \notin {"panicked", "cl_panicked"}

\* C15: a registration call that returns Err leaves the pass in its loop
\* over the descriptors, with the remaining ones still to come and the
\* workspace as it was; and when the loop is left, the registration of every
\* visible descriptor (and of its icon) has been attempted and the pass
\* cleans up and returns Ok.
C15_PushErrorTolerated ==
    [][/\ RegErrStep =>
            /\ pc' = IF pc \in {"c_entries", "c_icon"} THEN "c_entries" ELSE "cl_entries"
            /\ todo' \subseteq todo
            /\ Cardinality(todo \ todo') <= 1
            /\ dirs' = dirs
            /\ passEnd' = passEnd
       /\ (pc \in {"c_entries", "c_icon"} /\ pc' = "s_loop") =>
            /\ pc = "c_entries"
            /\ AllAttempted(apps)
            /\ IconsAttempted
            /\ passEnd' = "ok"
            /\ dirs' \cap SubDirs = {}
       /\ (pc \in {"cl_entries", "cl_icon"} /\ pc' = "cl_pending") =>
            AllAttempted(LocalApps(container_name))
      ]_vars

\* a pass in which one entry registration returned Err, another entry and
\* its icon were registered, and which cleaned up and returned Ok
C15_Witness ==
    /\ passEnd = "ok"
    /\ dirs = {}
    /\ \E c \in calls : c.op = "new_session_entry" /\ ~c.out
    /\ \E c \in calls : c.op = "new_session_entry" /\ c.out
    /\ \E c \in calls : c.op = "new_session_icon" /\ c.out

\* a push was made earlier in the pass
PushDone == \E c \in calls : c.op \in Pushes

HarvestOver == pc \in {"c_connect", "c_readdir", "c_entries", "c_icon"}

\* every copy-out of a pass precedes its first rewrite: while the copies run
\* nothing was read or pushed, and once they are over nothing is copied
CopyBeforeRewrite ==
    /\ pc = "c_copy" => (todo = {} /\ ~PushDone)
    /\ HarvestOver => pc' \notin {"c_start", "c_mkdir", "c_query", "c_copy"}
    /\ (HarvestOver /\ pc' # "s_loop") => (apps' = apps /\ icons' = icons /\ pixmaps' = pixmaps)

\* the workspace is deleted by the step that ends the pass, when no
\* directory entry is left
DeletionAfterLastPush ==
    (dirs' # dirs /\ dirs' \cap SubDirs = {}) => (pc = "c_entries" /\ todo = {} /\ pc' = "s_loop")

\* a step that reads and rewrites a descriptor, or resolves an icon
TransformStep == (pc = "c_entries" /\ todo' # todo) \/ pc = "c_icon"

----------------------------------------------------------------------------
(* Properties of client() *)

ClientPastSetup == {"cl_entries", "cl_icon", "cl_pending"}

\* C17: once the loop over the desktop files is over the client stays
\* blocked and never returns; past its setup it does not return at all, and
\* the one return it has is the Err of the connection, proxy or icon-cache
\* setup, before any file was handled.
C17_ClientNeverReturns ==
    [][/\ pc = "cl_pending" => pc' = "cl_pending"
       /\ pc \in ClientPastSetup => pc' \in ClientPastSetup \cup {"cl_panicked"}
       /\ pc' \in {"cl_returned_ok", "cl_returned_err"} =>
            (pc = "cl_connect" /\ pc' = "cl_returned_err" /\ calls' = {} /\ todo' = {})
      ]_vars

\* the loop is over, registrations were made, and the client is blocked
C17_Witness ==
    /\ pc = "cl_pending"
    /\ todo = {}
    /\ \E c \in calls : c.op = "register_entry" /\ c.out

----------------------------------------------------------------------------
(* Properties of the commands run for a container *)

\* a step in which the command of the given position ran and failed without
\* ending the process
CmdFailStep(at) ==
    /\ pc \in at
    /\ faults' = faults + 1
    /\ pc' # "panicked"

\* C18: a start command or a data-directory query that fails ends the pass
\* with an error on the spot, before any copy and any push, and the loop
\* goes on to the next container.
C18_CommandFailureAborts ==
    [][CmdFailStep({"c_start", "c_query"}) =>
         /\ pc' = "s_loop"
         /\ passEnd' = "err"
         /\ ~ \E c \in calls' : c.idx = idx /\ c.op \in {"copy", "new_session_entry", "new_session_icon"}
      ]_vars

\* C19: a copy command that fails does not end the pass: what was harvested
\* so far is kept, the copy of every remaining data directory and of the
\* pixmap path follows, and the harvest is left, towards the pass's
\* connection and the publishing, only after the last of the copies.
C19_CopyFailureTolerated ==
    [][/\ CmdFailStep({"c_copy"}) =>
            /\ copy_k' = copy_k + 1
            /\ pc' = (IF copy_k = 2 * Len(data_dirs) + 1 THEN "c_connect" ELSE "c_copy")
            /\ UNCHANGED <<apps, icons, pixmaps, dirs, data_dirs, container, passEnd>>
       /\ (pc = "c_copy" /\ pc' \notin {"c_copy", "panicked"}) =>
            (pc' = "c_connect" /\ copy_k = 2 * Len(data_dirs) + 1)
      ]_vars

\* the copy of d1/icons of container "a" failed (the directory exists and
\* nothing is in it), and the pass went on to push the descriptors harvested
C19_Witness ==
    /\ container.name = "a"
    /\ data_dirs = DataDirs
    /\ "icons" \in dirs
    /\ icons = {}
    /\ apps # {}
    /\ \E c \in calls : c.idx = idx /\ c.op = "new_session_entry" /\ c.out

----------------------------------------------------------------------------
(* Properties of the rewriter, line by line *)

\* C20: the rewrite works line by line: the output has as many lines as the
\* input, and each line of the output is the rewrite of the input line at
\* the same place taken alone, a field without a value included.
C20_LineOriented ==
    rw.done =>
        LET in == SplitLines(rw.input)
            out == SplitLines(rw.output)
        IN /\ Len(out) = Len(in)
           /\ \A i \in 1..Len(in) : out[i] = RewriteText(rw.kind, rw.name, in[i])

\* C21: the rewrite of a text that was already rewritten, for the same kind
\* and container name, is that text: no template is wrapped a second time.
C21_RewriteIdempotent ==
    rw.again => rw.twice = rw.output

----------------------------------------------------------------------------
(* Properties of lookup_icon: what counts as a candidate *)

\* C22: only regular files are candidates: lookup_icon never returns a
\* directory, and a directory of the icon's name in the icon tree does not
\* keep the pixmap fallback from being used when no file of the icon tree
\* has the name.
C22_OnlyRegularFiles ==
    lk.done =>
        /\ ~lk.result.dir
        /\ ((\A i \in BaseHits : lk.base[i].dir) /\ PixHits # {}) =>
              \E i \in PixHits : lk.result = lk.pix[i]

----------------------------------------------------------------------------
(* main.rs shell_command applied to every result Command::output() can give *)

InitShell ==
    /\ InitServer
    /\ owner = "cde"
    /\ rw = RwIdle
    /\ lk = LkIdle
    /\ mn \in {[MnIdle EXCEPT !.pc = "sh_call", !.proc = p] : p \in ProcResults}

ApplyShell ==
    /\ mn.pc = "sh_call"
    /\ mn' = [mn EXCEPT !.pc = "sh_done", !.res = shell_command(mn.proc)]
    /\ UNCHANGED <<serverVars, rw, lk>>

NextShell == ApplyShell

SpecShell == InitShell /\ [][NextShell]_vars

\* C23: whatever the exit status, shell_command returns CommandNotFound
\* exactly when the process ran and one of its streams contains "command
\* not found", IO exactly when the process could not be run, and Ok in
\* every other case.
C23_ShellClassification ==
    mn.pc = "sh_done" =>
        LET said == Contains(mn.proc.out, S_CommandNotFound) \/ Contains(mn.proc.err, S_CommandNotFound)
        IN /\ mn.res = "CommandNotFound" <=> (mn.proc.spawned /\ said)
           /\ mn.res = "IO" <=> ~mn.proc.spawned
           /\ (mn.proc.spawned /\ ~said) => mn.res = "Ok"

----------------------------------------------------------------------------
(* main.rs: main() over the list of containers, in server or client mode *)

\* lines a desktop file read by container_client can hold
MainSampleLines ==
    {S_ExecEq \o <<"v">>, S_ExecEq, S_NameEq \o <<"w">>, S_IconEq \o <<"i">>}

MainInputs ==
    UNION {{JoinLines(ls) : ls \in [1..n -> MainSampleLines]} : n \in 1..MaxLines}

\* lines 164-222: the mode and the list of (name, protocol) pairs
InitMain ==
    /\ InitServer
    /\ owner = "cde"
    /\ rw = RwIdle
    /\ lk = LkIdle
    /\ mn \in {[MnIdle EXCEPT !.pc = "m_loop", !.mode = m, !.n = n] :
                 m \in {"Client", "Server"}, n \in 0..MaxContainers}

\* lines 224-243: the next pair of the list, or Ok at its end; a protocol
\* that is not supported is warned about and handled like the others
MainLoop ==
    /\ mn.pc = "m_loop"
    /\ IF mn.idx = mn.n
       THEN mn' = [mn EXCEPT !.pc = "m_returned_ok"]
       ELSE \E name \in ContainerNames, kind \in ContainerType :
              mn' = [mn EXCEPT !.idx = mn.idx + 1, !.name = name, !.kind = kind,
                               !.pc = IF mn.mode = "Client" THEN "k_reset" ELSE "v_connect"]
    /\ UNCHANGED <<serverVars, rw, lk>>

\* lines 236-238: if let Err(e) = container_server(..).await { return Err(e) }
AfterServerErr == "m_returned_err"

\* lines 346-348: the connection and the proxy of container_server
MainConnect ==
    /\ mn.pc = "v_connect"
    /\ \E ok \in BOOLEAN :
         mn' = [mn EXCEPT !.pc = IF ok THEN "v_start" ELSE AfterServerErr,
                          !.res = IF ok THEN "none" ELSE "zbus"]
    /\ UNCHANGED <<serverVars, rw, lk>>

\* the commands of container_server, in the order of the code
CommandSteps == <<"v_start", "v_run", "v_copy_apps", "v_copy_icons", "v_rm_apps", "v_rm_icons">>

CommandAfter(at) ==
    CASE at = "v_start" -> "v_run"
      [] at = "v_run" -> "v_copy_apps"
      [] at = "v_copy_apps" -> "v_copy_icons"
      [] at = "v_copy_icons" -> "v_register"
      [] at = "v_rm_apps" -> "v_rm_icons"
      [] at = "v_rm_icons" -> "m_loop"

\* lines 350, 352-360, 372-383, 453-463: start_container, run_on_container
\* and copy_from_container, each shell_command(...)?
ServerCommand ==
    /\ mn.pc \in {CommandSteps[i] : i \in DOMAIN CommandSteps}
    /\ \E p \in ProcResults :
         LET r == shell_command(p)
         IN mn' = [mn EXCEPT !.res = r,
                             !.pc = CASE r = "Ok" -> CommandAfter(mn.pc)
                                      [] r = "panic" -> "m_panicked"
                                      [] OTHER -> AfterServerErr]
    /\ UNCHANGED <<serverVars, rw, lk>>

\* lines 385-451: register_entries and register_icons, an Err of either
\* logged, then the two remove_dir_all calls
ServerRegister ==
    /\ mn.pc = "v_register"
    /\ \E entries_ok \in BOOLEAN, icons_ok \in BOOLEAN :
         mn' = [mn EXCEPT !.pc = "v_rm_apps",
                          !.res = IF entries_ok /\ icons_ok THEN "registered" ELSE "logged"]
    /\ UNCHANGED <<serverVars, rw, lk>>

\* lines 487-496: container_client empties its staging directories
ClientReset ==
    /\ mn.pc = "k_reset"
    /\ mn' = [mn EXCEPT !.pc = "k_stage", !.input = <<>>, !.staged = <<>>]
    /\ UNCHANGED <<serverVars, rw, lk>>

\* lines 497-615: a desktop file is read, rewritten and written to the
\* staging directory; Cache::new().unwrap() may panic afterwards
ClientStage ==
    /\ mn.pc = "k_stage"
    /\ \E txt \in MainInputs, cache_ok \in BOOLEAN :
         mn' = [mn EXCEPT !.input = txt,
                          !.staged = container_client_text(mn.kind, mn.name, txt),
                          !.res = "staged",
                          !.pc = IF cache_ok THEN "m_loop" ELSE "m_panicked"]
    /\ UNCHANGED <<serverVars, rw, lk>>

NextMain ==
    \/ MainLoop
    \/ MainConnect
    \/ ServerCommand
    \/ ServerRegister
    \/ ClientReset
    \/ ClientStage

SpecMain == InitMain /\ [][NextMain]_vars

----------------------------------------------------------------------------
(* Properties of main.rs *)

\* C24: in server mode, a container_server that returns the error of a
\* start, exec or copy command for one container does not keep the
\* containers listed after it from being processed: when main() has
\* returned after such an error, the whole list has been gone through.
C24_LaterContainersProcessed ==
    (/\ mn.mode = "Server"
     /\ mn.pc \in {"m_returned_ok", "m_returned_err"}
     /\ mn.res \in {"IO", "CommandNotFound"})
    => mn.idx = mn.n

\* container_client has staged the text of mn.input for (mn.name, mn.kind)
Staged == mn.res = "staged" /\ mn.pc \in {"m_loop", "m_panicked", "m_returned_ok"}

\* C25: for the Toolbox kind and container name N, container_client stages
\* every line Name=V as Name=V (N) and every line Exec=V as
\* Exec=toolbox run -c N V, each at the place of the original (stated for
\* files whose Exec= and Name= lines all have a value).
C25_MainClientRewrite ==
    (/\ Staged
     /\ mn.kind = "Toolbox"
     /\ \A l \in Range(SplitLines(mn.input)) : l \notin {S_ExecEq, S_NameEq})
    => LET in == SplitLines(mn.input)
           out == SplitLines(mn.staged)
           N == NameChars(mn.name)
       IN /\ Len(out) = Len(in)
          /\ \A i \in 1..Len(in) :
               /\ StartsWith(in[i], S_ExecEq) =>
                    out[i] = S_ToolboxExec \o N \o <<" ">> \o FieldValue(in[i], S_ExecEq)
               /\ StartsWith(in[i], S_NameEq) =>
                    out[i] = S_NameEq \o FieldValue(in[i], S_NameEq) \o <<" ", "(">> \o N \o <<")">>

----------------------------------------------------------------------------
(* Properties of the workspace across the passes of a run *)

\* a step of the loop of server() that starts a pass after an earlier
\* set_up_client of the same run has returned
LaterPassStarts ==
    /\ pc = "s_loop"
    /\ passEnd \in {"ok", "err"}
    /\ pc' = "c_start"

\* C26: when a pass starts after an earlier pass of the run has returned,
\* with Ok or with Err, the workspace's applications/, icons/ and pixmaps/
\* hold nothing, so that no descriptor of the earlier container can be
\* rewritten and registered in the later pass.
C26_WorkspaceFresh ==
    [][LaterPassStarts => (apps' = {} /\ icons' = {} /\ pixmaps' = {})]_vars

----------------------------------------------------------------------------
(* Properties of the retraction within a run *)

\* the application ids and the icon names the daemon attributes to the owner
HeldIds(d, o) ==
    [entries |-> {e.appid : e \in {x \in d.entries : x.owner = o}},
     icons |-> {e.name : e \in {x \in d.icons : x.owner = o}}]

----------------------------------------------------------------------------
(* Properties of the icon registration of a descriptor *)

\* the registration of the entry (appid, text) was called and returned Ok
EntryOk(appid, text) ==
    \E e \in calls : e.op \in EntryCalls /\ e.appid = appid /\ e.text = text /\ e.out

\* C28: the icon of a descriptor is looked up and registered only after the
\* registration of that descriptor's entry has returned Ok; a descriptor
\* whose entry registration returned Err has no icon lookup and no icon
\* registration call.
C28_IconAfterEntryOk ==
    /\ \A c \in calls : c.op \in IconCalls => EntryOk(c.appid, c.text)
    /\ pc \in {"c_icon", "cl_icon"} => EntryOk(cur.appid, cur.text)
    /\ \A e \in calls : (e.op \in EntryCalls /\ ~e.out) =>
          /\ ~(pc \in {"c_icon", "cl_icon"} /\ cur.appid = e.appid)
          /\ \A c \in calls : c.op \in IconCalls => c.appid # e.appid

\* an icon registration call was made, for a descriptor that names an icon
\* and whose entry registration returned Ok
C28_Witness ==
    \E c \in calls :
        /\ c.op = "new_session_icon"
        /\ HasKey(c.text, S_IconEq)
        /\ EntryOk(c.appid, c.text)

----------------------------------------------------------------------------
(* Properties of lookup_icon: which result leads to an icon registration *)

\* C29: when the icon tree or the pixmap tree holds a file I.png or I.svg,
\* the lookup for I ends in an icon registration with the bytes of a .png
\* or .svg file, whatever other files of stem I the two trees hold (stated
\* for trees in which no directory has the name I).
C29_IconRegisteredWhenPresent ==
    (/\ lk.done
     /\ \A i \in BaseHits : ~lk.base[i].dir
     /\ \A i \in PixHits : ~lk.pix[i].dir
     /\ \/ \E i \in BaseHits : lk.base[i].ext \in {"png", "svg"}
        \/ \E i \in PixHits : lk.pix[i].ext \in {"png", "svg"})
    => PushesIcon(lk.result)

====
